---------------------------- MODULE Spec2Model ----------------------------
(***************************************************************************)
(* A model of TB2J/pauli.py: decomposition of 2x2 matrices, and of         *)
(* (2*norb1) x (2*norb2) block matrices, on the basis I, sigma_x, sigma_y, *)
(* sigma_z, and the construction of block matrices from a Pauli index.     *)
(*                                                                         *)
(* The functions of the module are pure.  The state machine is a caller:   *)
(* from the idle state it calls one function on inputs drawn from bounded  *)
(* sets, and the state after the call records the function, its arguments  *)
(* and its outcome (a returned value or the exception raised).             *)
(*                                                                         *)
(* Numbers.  A complex number z is the pair <<2*Re(z), 2*Im(z)>> of        *)
(* integers.  The inputs are Gaussian integers, the code divides by 2 at   *)
(* most once on every path, so every number the code computes is a         *)
(* half-integer and is held exactly here, as it is in IEEE doubles.        *)
(***************************************************************************)
EXTENDS Integers, Sequences, FiniteSets, TLC

VARIABLES fn, M, dtype, norb, idim, nbasis, ret

vars == <<fn, M, dtype, norb, idim, nbasis, ret>>

(***************************************************************************)
(* Bounds of the model.                                                    *)
(***************************************************************************)
\* real parts of the matrix entries range over -MaxVal..MaxVal
MaxVal == 1
\* block matrices have shape (2*norb1, 2*norb2), norb1, norb2 in 1..MaxNorb
MaxNorb == 2
\* pauli_mat is called with nbasis in -2..MaxNbasis
MaxNbasis == 5
\* pauli_mat and pauli_block are called with an index in -1..MaxIdx
MaxIdx == 5

(***************************************************************************)
(* Complex arithmetic on pairs <<2*Re, 2*Im>>.                             *)
(***************************************************************************)
C(re, im) == <<2 * re, 2 * im>>

Zero == C(0, 0)
One == C(1, 0)
ImagUnit == C(0, 1)

CAdd(a, b) == <<a[1] + b[1], a[2] + b[2]>>
CNeg(a) == <<-a[1], -a[2]>>
CSub(a, b) == <<a[1] - b[1], a[2] - b[2]>>
CMul(a, b) == <<(a[1] * b[1] - a[2] * b[2]) \div 2, (a[1] * b[2] + a[2] * b[1]) \div 2>>
\* z / 2
CHalf(a) == <<a[1] \div 2, a[2] \div 2>>
\* 4 * |z|^2
AbsSq4(a) == a[1] * a[1] + a[2] * a[2]

(***************************************************************************)
(* Arrays: [nr, nc, e], e a function on (1..nr) \X (1..nc).                *)
(***************************************************************************)
Idx(nr, nc) == (1..nr) \X (1..nc)

\* e is a function of two arguments, e[i, j] = e[<<i, j>>]
Array(nr, nc, e) == [nr |-> nr, nc |-> nc, e |-> e]

Mat2(a, b, c, d) == Array(2, 2, [i \in 1..2, j \in 1..2 |-> IF i = 1 THEN (IF j = 1 THEN a ELSE b) ELSE (IF j = 1 THEN c ELSE d)])

\* M[r0:r1, c0:c1], 0-based and half-open as in Python
Slice(A, r0, r1, c0, c1) == Array(r1 - r0, c1 - c0, [i \in 1..(r1 - r0), j \in 1..(c1 - c0) |-> A.e[<<i + r0, j + c0>>]])

Add(A, B) == Array(A.nr, A.nc, [i \in 1..A.nr, j \in 1..A.nc |-> CAdd(A.e[<<i, j>>], B.e[<<i, j>>])])
Sub(A, B) == Array(A.nr, A.nc, [i \in 1..A.nr, j \in 1..A.nc |-> CSub(A.e[<<i, j>>], B.e[<<i, j>>])])
Neg(A) == Array(A.nr, A.nc, [i \in 1..A.nr, j \in 1..A.nc |-> CNeg(A.e[<<i, j>>])])
\* element-wise product A * B
Times(A, B) == Array(A.nr, A.nc, [i \in 1..A.nr, j \in 1..A.nc |-> CMul(A.e[<<i, j>>], B.e[<<i, j>>])])
\* A * z for a scalar z
Scale(A, z) == Array(A.nr, A.nc, [i \in 1..A.nr, j \in 1..A.nc |-> CMul(A.e[<<i, j>>], z)])
\* A / 2
Half(A) == Array(A.nr, A.nc, [i \in 1..A.nr, j \in 1..A.nc |-> CHalf(A.e[<<i, j>>])])
\* A.T
Transpose(A) == Array(A.nc, A.nr, [i \in 1..A.nc, j \in 1..A.nr |-> A.e[<<j, i>>]])

RECURSIVE SumTo(_, _)
SumTo(f, n) == IF n = 0 THEN Zero ELSE CAdd(SumTo(f, n - 1), f[n])

\* A.dot(B)
Dot(A, B) == Array(A.nr, B.nc, [i \in 1..A.nr, j \in 1..B.nc |-> SumTo([k \in 1..A.nc |-> CMul(A.e[<<i, k>>], B.e[<<k, j>>])], A.nc)])

Min(a, b) == IF a < b THEN a ELSE b

\* np.trace(A)
Trace(A) == SumTo([k \in 1..Min(A.nr, A.nc) |-> A.e[<<k, k>>]], Min(A.nr, A.nc))

\* np.sum(A)
Sum(A) == SumTo([i \in 1..A.nr |-> SumTo([j \in 1..A.nc |-> A.e[<<i, j>>]], A.nc)], A.nr)

(***************************************************************************)
(* The module constants.                                                   *)
(***************************************************************************)
s0 == Mat2(One, Zero, Zero, One)
s1 == Mat2(Zero, One, One, Zero)
s2 == Mat2(Zero, CNeg(ImagUnit), ImagUnit, Zero)
s3 == Mat2(One, Zero, Zero, CNeg(One))

s0T == Transpose(s0)
s1T == Transpose(s1)
s2T == Transpose(s2)
s3T == Transpose(s3)

pauli_dict == [k \in 0..3 |-> CASE k = 0 -> s0 [] k = 1 -> s1 [] k = 2 -> s2 [] k = 3 -> s3]

(***************************************************************************)
(* Outcomes of a call.                                                     *)
(***************************************************************************)
Value(v) == [kind |-> "value", val |-> v]
Raise(exc) == [kind |-> "error", exc |-> exc]
NoRet == [kind |-> "none"]

(***************************************************************************)
(* The scalar 2x2 decomposition.                                           *)
(***************************************************************************)
\* pauli_decomp with the transpose of s2 in the place of s2
pauli_decomp_s2T(A) == <<CHalf(Trace(Dot(s0, A))), CHalf(Trace(Dot(s1, A))), CHalf(Trace(Dot(s2T, A))), CHalf(Trace(Dot(s3, A)))>>

pauli_decomp(A) == <<CHalf(Trace(Dot(s0, A))), CHalf(Trace(Dot(s1, A))), CHalf(Trace(Dot(s2, A))), CHalf(Trace(Dot(s3, A)))>>

\* pauli_decomp2 with s2 in the place of its transpose
pauli_decomp2_s2(A) == <<CHalf(Sum(Times(A, s0T))), CHalf(Sum(Times(A, s1T))), CHalf(Sum(Times(A, s2))), CHalf(Sum(Times(A, s3T)))>>

pauli_decomp2(A) == <<CHalf(Sum(Times(A, s0T))), CHalf(Sum(Times(A, s1T))), CHalf(Sum(Times(A, s2T))), CHalf(Sum(Times(A, s3T)))>>

\* np.linalg.norm(v) of a sequence of complex scalars: the real r >= 0 with
\* r^2 = sum |v[k]|^2.  The square root is not taken here: r is held as the
\* integer 4 * r^2, which determines it.
Norm(v) == [sq4 |-> SumTo([k \in 1..Len(v) |-> <<AbsSq4(v[k]), 0>>], Len(v))[1]]

\* pauli_sigma_norm that unpacks the decomposition one place to the left
pauli_sigma_norm_withI(A) ==
    LET d == pauli_decomp2(A)
        Mx == d[1]
        My == d[2]
        Mz == d[3]
    IN Norm(<<Mx, My, Mz>>)

pauli_sigma_norm(A) ==
    LET d == pauli_decomp2(A)
        Mx == d[2]
        My == d[3]
        Mz == d[4]
    IN Norm(<<Mx, My, Mz>>)

(***************************************************************************)
(* Construction of a block matrix from a Pauli index.                      *)
(***************************************************************************)
\* np.ones((N, N), dtype='complex')
Ones(N) == Array(N, N, [i \in 1..N, j \in 1..N |-> One])

\* np.block([[A, B], [CC, D]])
Block(A, B, CC, D) ==
    Array(A.nr + CC.nr, A.nc + B.nc,
          [i \in 1..(A.nr + CC.nr), j \in 1..(A.nc + B.nc) |-> IF i <= A.nr
                        THEN (IF j <= A.nc THEN A.e[<<i, j>>] ELSE B.e[<<i, j - A.nc>>])
                        ELSE (IF j <= CC.nc THEN CC.e[<<i - A.nr, j>>] ELSE D.e[<<i - A.nr, j - CC.nc>>])])

\* pauli_mat without the check of the dimension
pauli_mat_unchecked(nb, i) ==
    LET N == nb \div 2
    IN IF N < 0 THEN Raise("ValueError")
       ELSE IF i \notin DOMAIN pauli_dict THEN Raise("KeyError")
       ELSE LET spm == pauli_dict[i]
                J == Ones(N)
            IN Value(Block(Scale(J, spm.e[<<1, 1>>]), Scale(J, spm.e[<<1, 2>>]),
                           Scale(J, spm.e[<<2, 1>>]), Scale(J, spm.e[<<2, 2>>])))

\* pauli_mat with the two off-diagonal blocks exchanged
pauli_mat_swapped(nb, i) ==
    LET N == nb \div 2
    IN IF N * 2 # nb THEN Raise("AssertionError")
       ELSE IF N < 0 THEN Raise("ValueError")
       ELSE IF i \notin DOMAIN pauli_dict THEN Raise("KeyError")
       ELSE LET spm == pauli_dict[i]
                J == Ones(N)
            IN Value(Block(Scale(J, spm.e[<<1, 1>>]), Scale(J, spm.e[<<2, 1>>]),
                           Scale(J, spm.e[<<1, 2>>]), Scale(J, spm.e[<<2, 2>>])))

pauli_mat(nb, i) ==
    LET N == nb \div 2
    IN IF N * 2 # nb THEN Raise("AssertionError")
       ELSE IF N < 0 THEN Raise("ValueError")
       ELSE IF i \notin DOMAIN pauli_dict THEN Raise("KeyError")
       ELSE LET spm == pauli_dict[i]
                J == Ones(N)
            IN Value(Block(Scale(J, spm.e[<<1, 1>>]), Scale(J, spm.e[<<1, 2>>]),
                           Scale(J, spm.e[<<2, 1>>]), Scale(J, spm.e[<<2, 2>>])))

(***************************************************************************)
(* Arrays with a dtype: zeros_like and assignment into a slice.            *)
(***************************************************************************)
\* the cast numpy applies when a value is stored into an array of dtype dt:
\* a real dtype drops the imaginary part, an integer dtype truncates to zero
Trunc2(a) == IF a >= 0 THEN 2 * (a \div 2) ELSE -(2 * ((-a) \div 2))

Cast(z, dt) ==
    CASE dt = "complex128" -> z
      [] dt = "float64" -> <<z[1], 0>>
      [] dt = "int64" -> <<Trunc2(z[1]), 0>>

\* zeros_like(A)
zeros_like(A) == Array(A.nr, A.nc, [i \in 1..A.nr, j \in 1..A.nc |-> Zero])

\* R[r0:r0+T.nr, c0:c0+T.nc] = T, for R of dtype dt
SetSlice(R, dt, r0, c0, T) ==
    Array(R.nr, R.nc,
          [i \in 1..R.nr, j \in 1..R.nc |-> IF i > r0 /\ i <= r0 + T.nr /\ j > c0 /\ j <= c0 + T.nc
                        THEN Cast(T.e[<<i - r0, j - c0>>], dt)
                        ELSE R.e[<<i, j>>]])

(***************************************************************************)
(* The legacy single-axis helpers.                                         *)
(***************************************************************************)
(***************************************************************************)
(* The legacy single-axis helpers, for M of dtype dt and shape             *)
(* (2*nb, 2*nb).                                                           *)
(***************************************************************************)
pauli_block_I(A, dt, nb) ==
    LET tmp == Half(Add(Slice(A, 0, nb, 0, nb), Slice(A, nb, A.nr, nb, A.nc)))
        r1 == SetSlice(zeros_like(A), dt, 0, 0, tmp)
        r2 == SetSlice(r1, dt, nb, nb, tmp)
    IN Value(r2)

pauli_block_x(A, dt, nb) ==
    LET tmp == Half(Add(Slice(A, 0, nb, nb, A.nc), Slice(A, nb, A.nr, 0, nb)))
        r1 == SetSlice(zeros_like(A), dt, 0, nb, tmp)
        r2 == SetSlice(r1, dt, nb, 0, tmp)
    IN Value(r2)

\* pauli_block_y that embeds tmp * 1j above and tmp * (-1j) below
pauli_block_y_swapped(A, dt, nb) ==
    LET tmp == Half(Add(Scale(Slice(A, 0, nb, nb, A.nc), ImagUnit),
                        Scale(Slice(A, nb, A.nr, 0, nb), CNeg(ImagUnit))))
        r1 == SetSlice(zeros_like(A), dt, 0, nb, Scale(tmp, ImagUnit))
        r2 == SetSlice(r1, dt, nb, 0, Scale(tmp, CNeg(ImagUnit)))
    IN Value(<<tmp, r2>>)

pauli_block_y(A, dt, nb) ==
    LET tmp == Half(Add(Scale(Slice(A, 0, nb, nb, A.nc), ImagUnit),
                        Scale(Slice(A, nb, A.nr, 0, nb), CNeg(ImagUnit))))
        r1 == SetSlice(zeros_like(A), dt, 0, nb, Scale(tmp, CNeg(ImagUnit)))
        r2 == SetSlice(r1, dt, nb, 0, Scale(tmp, ImagUnit))
    IN Value(<<tmp, r2>>)

pauli_block_z(A, dt, nb) ==
    LET tmp == Half(Sub(Slice(A, 0, nb, 0, nb), Slice(A, nb, A.nr, nb, A.nc)))
        r1 == SetSlice(zeros_like(A), dt, 0, 0, tmp)
        r2 == SetSlice(r1, dt, nb, nb, Neg(tmp))
    IN Value(<<tmp, r2>>)

(***************************************************************************)
(* The block decomposition.                                                *)
(***************************************************************************)
\* M.shape
Shape(A) == <<A.nr, A.nc>>

\* np.array(t) // k: element-wise floor division of an integer array
NdarrayFloorDiv(t, k) == Value([j \in DOMAIN t |-> t[j] \div k])

\* t // k for a Python tuple t: tuple defines no floor division
TupleFloorDiv(t, k) == Raise("TypeError")

pauli_block(A, i) ==
    LET h == TupleFloorDiv(Shape(A), 2)
    IN IF h.kind = "error" THEN h
       ELSE LET norb1 == h.val[1]
                norb2 == h.val[2]
            IN IF i = 0
               THEN Value(Half(Add(Slice(A, 0, norb1, 0, norb2), Slice(A, norb1, A.nr, norb2, A.nc))))
               ELSE IF i = 1
               THEN Value(Half(Add(Slice(A, 0, norb1, norb2, A.nc), Slice(A, norb1, A.nr, 0, norb2))))
               ELSE IF i = 2
               THEN Value(Half(Add(Scale(Slice(A, 0, norb1, norb2, A.nc), ImagUnit),
                                   Scale(Slice(A, norb1, A.nr, 0, norb2), CNeg(ImagUnit)))))
               ELSE IF i = 3
               THEN Value(Half(Sub(Slice(A, 0, norb1, 0, norb2), Slice(A, norb1, A.nr, norb2, A.nc))))
               ELSE Raise("NotImplementedError")

\* pauli_block_all with the two signs of My exchanged
pauli_block_all_conj(A) ==
    LET h == NdarrayFloorDiv(Shape(A), 2)
        norb1 == h.val[1]
        norb2 == h.val[2]
        MI == Half(Add(Slice(A, 0, norb1, 0, norb2), Slice(A, norb1, A.nr, norb2, A.nc)))
        Mx == Half(Add(Slice(A, 0, norb1, norb2, A.nc), Slice(A, norb1, A.nr, 0, norb2)))
        My == Half(Add(Scale(Slice(A, 0, norb1, norb2, A.nc), CNeg(ImagUnit)),
                       Scale(Slice(A, norb1, A.nr, 0, norb2), ImagUnit)))
        Mz == Half(Sub(Slice(A, 0, norb1, 0, norb2), Slice(A, norb1, A.nr, norb2, A.nc)))
    IN <<MI, Mx, My, Mz>>

pauli_block_all(A) ==
    LET h == NdarrayFloorDiv(Shape(A), 2)
        norb1 == h.val[1]
        norb2 == h.val[2]
        MI == Half(Add(Slice(A, 0, norb1, 0, norb2), Slice(A, norb1, A.nr, norb2, A.nc)))
        Mx == Half(Add(Slice(A, 0, norb1, norb2, A.nc), Slice(A, norb1, A.nr, 0, norb2)))
        My == Half(Add(Scale(Slice(A, 0, norb1, norb2, A.nc), ImagUnit),
                       Scale(Slice(A, norb1, A.nr, 0, norb2), CNeg(ImagUnit))))
        Mz == Half(Sub(Slice(A, 0, norb1, 0, norb2), Slice(A, norb1, A.nr, norb2, A.nc)))
    IN <<MI, Mx, My, Mz>>

\* np.sign(t) of a number t whose imaginary part is 0
Sign(t) == IF t[1] > 0 THEN One ELSE IF t[1] < 0 THEN CNeg(One) ELSE Zero

\* pauli_block_sigma_norm that takes the sign of 0 to be 1
pauli_block_sigma_norm_nozero(A) ==
    LET Mz == pauli_block_all(A)[4]
    IN Scale(Mz, IF Trace(Mz)[1] >= 0 THEN One ELSE CNeg(One))

pauli_block_sigma_norm(A) ==
    LET Mz == pauli_block_all(A)[4]
    IN Scale(Mz, Sign(Trace(Mz)))

(***************************************************************************)
(* Inputs.                                                                 *)
(***************************************************************************)
Reals == {C(a, 0) : a \in -MaxVal..MaxVal}
Complexes == {C(a, b) : a \in -MaxVal..MaxVal, b \in {-1, 0, 1}}

Mats2x2 == {Mat2(a, b, c, d) : a \in Complexes, b \in Complexes, c \in Complexes, d \in Complexes}

\* the nr x nc arrays whose upper half of the rows holds b and whose lower half
\* holds c, but for one place, which holds v: b and v range over Vals, c over
\* the three values 0, 1, 1j that are in Vals
Mats(nr, nc, Vals) ==
    {Array(nr, nc, [i \in 1..nr, j \in 1..nc |-> IF <<i, j>> = p THEN v ELSE IF 2 * i <= nr THEN b ELSE c]) :
        p \in Idx(nr, nc), b \in Vals, c \in {Zero, One, ImagUnit} \cap Vals, v \in Vals}

Norbs == 1..MaxNorb

Dtypes == {"int64", "float64", "complex128"}

\* the values an array of dtype dt holds
ValuesOf(dt) == IF dt = "complex128" THEN Complexes ELSE Reals

NoMat == Array(0, 0, [i \in 1..0, j \in 1..0 |-> Zero])

Init ==
    /\ fn = "none"
    /\ M = NoMat
    /\ dtype = "none"
    /\ norb = 0
    /\ idim = 0
    /\ nbasis = 0
    /\ ret = NoRet

Call_pauli_decomp ==
    /\ fn = "none"
    /\ \E A \in Mats2x2 :
        /\ M' = A
        /\ ret' = Value(pauli_decomp(A))
    /\ fn' = "pauli_decomp"
    /\ dtype' = "complex128"
    /\ UNCHANGED <<norb, idim, nbasis>>

Call_pauli_decomp2 ==
    /\ fn = "none"
    /\ \E A \in Mats2x2 :
        /\ M' = A
        /\ ret' = Value(pauli_decomp2(A))
    /\ fn' = "pauli_decomp2"
    /\ dtype' = "complex128"
    /\ UNCHANGED <<norb, idim, nbasis>>

Call_pauli_sigma_norm ==
    /\ fn = "none"
    /\ \E A \in Mats2x2 :
        /\ M' = A
        /\ ret' = Value(pauli_sigma_norm(A))
    /\ fn' = "pauli_sigma_norm"
    /\ dtype' = "complex128"
    /\ UNCHANGED <<norb, idim, nbasis>>

Call_pauli_mat ==
    /\ fn = "none"
    /\ \E nb \in -2..MaxNbasis, i \in -1..MaxIdx :
        /\ nbasis' = nb
        /\ idim' = i
        /\ ret' = pauli_mat(nb, i)
    /\ fn' = "pauli_mat"
    /\ UNCHANGED <<M, dtype, norb>>

Call_pauli_block_I ==
    /\ fn = "none"
    /\ \E nb \in Norbs, dt \in Dtypes :
        \E A \in Mats(2 * nb, 2 * nb, ValuesOf(dt)) :
            /\ M' = A
            /\ dtype' = dt
            /\ norb' = nb
            /\ ret' = pauli_block_I(A, dt, nb)
    /\ fn' = "pauli_block_I"
    /\ UNCHANGED <<idim, nbasis>>

Call_pauli_block_x ==
    /\ fn = "none"
    /\ \E nb \in Norbs, dt \in Dtypes :
        \E A \in Mats(2 * nb, 2 * nb, ValuesOf(dt)) :
            /\ M' = A
            /\ dtype' = dt
            /\ norb' = nb
            /\ ret' = pauli_block_x(A, dt, nb)
    /\ fn' = "pauli_block_x"
    /\ UNCHANGED <<idim, nbasis>>

Call_pauli_block_y ==
    /\ fn = "none"
    /\ \E nb \in Norbs, dt \in Dtypes :
        \E A \in Mats(2 * nb, 2 * nb, ValuesOf(dt)) :
            /\ M' = A
            /\ dtype' = dt
            /\ norb' = nb
            /\ ret' = pauli_block_y(A, dt, nb)
    /\ fn' = "pauli_block_y"
    /\ UNCHANGED <<idim, nbasis>>

Call_pauli_block_z ==
    /\ fn = "none"
    /\ \E nb \in Norbs, dt \in Dtypes :
        \E A \in Mats(2 * nb, 2 * nb, ValuesOf(dt)) :
            /\ M' = A
            /\ dtype' = dt
            /\ norb' = nb
            /\ ret' = pauli_block_z(A, dt, nb)
    /\ fn' = "pauli_block_z"
    /\ UNCHANGED <<idim, nbasis>>

Call_pauli_block ==
    /\ fn = "none"
    /\ \E norb1 \in Norbs, norb2 \in Norbs, i \in -1..MaxIdx :
        \E A \in Mats(2 * norb1, 2 * norb2, Reals) :
            /\ M' = A
            /\ idim' = i
            /\ ret' = pauli_block(A, i)
    /\ fn' = "pauli_block"
    /\ dtype' = "float64"
    /\ UNCHANGED <<norb, nbasis>>

Call_pauli_block_all ==
    /\ fn = "none"
    /\ \E norb1 \in Norbs, norb2 \in Norbs :
        \E A \in Mats(2 * norb1, 2 * norb2, Complexes) :
            /\ M' = A
            /\ ret' = Value(pauli_block_all(A))
    /\ fn' = "pauli_block_all"
    /\ dtype' = "complex128"
    /\ UNCHANGED <<norb, idim, nbasis>>

\* np.sign is applied to trace(Mz): the call is made on the arrays for which
\* that trace is real (the sign of a non-real number differs between numpy
\* versions)
Call_pauli_block_sigma_norm ==
    /\ fn = "none"
    /\ \E norb1 \in Norbs, norb2 \in Norbs :
        \E A \in Mats(2 * norb1, 2 * norb2, Complexes) :
            /\ Trace(pauli_block_all(A)[4])[2] = 0
            /\ M' = A
            /\ ret' = Value(pauli_block_sigma_norm(A))
    /\ fn' = "pauli_block_sigma_norm"
    /\ dtype' = "complex128"
    /\ UNCHANGED <<norb, idim, nbasis>>

Next ==
    \/ Call_pauli_decomp
    \/ Call_pauli_decomp2
    \/ Call_pauli_sigma_norm
    \/ Call_pauli_mat
    \/ Call_pauli_block_I
    \/ Call_pauli_block_x
    \/ Call_pauli_block_y
    \/ Call_pauli_block_z
    \/ Call_pauli_block
    \/ Call_pauli_block_all
    \/ Call_pauli_block_sigma_norm

Spec == Init /\ [][Next]_vars

(***************************************************************************)
(* Properties.                                                             *)
(***************************************************************************)
Zeros(nr, nc) == Array(nr, nc, [i \in 1..nr, j \in 1..nc |-> Zero])

IsScalarMultipleOfIdentity(A) ==
    /\ A.e[<<1, 2>>] = Zero
    /\ A.e[<<2, 1>>] = Zero
    /\ A.e[<<1, 1>>] = A.e[<<2, 2>>]

\* C1: 2x2 round trip.  With (I, x, y, z) = pauli_decomp(M), the matrix
\* I*s0 + x*s1 + y*s2 + z*s3 equals M entry by entry.
C1_RoundTrip ==
    fn = "pauli_decomp" =>
        LET d == ret.val
        IN Add(Add(Scale(s0, d[1]), Scale(s1, d[2])), Add(Scale(s2, d[3]), Scale(s3, d[4]))) = M

\* a decomposition with four non-zero components of a matrix that is not symmetric
C1_Witness ==
    /\ fn = "pauli_decomp"
    /\ \A k \in 1..4 : ret.val[k] # Zero
    /\ M.e[<<1, 2>>] # M.e[<<2, 1>>]
    /\ ret.val[3][1] # 0
    /\ ret.val[3][2] # 0

\* C2: block round trip.  With (MI, Mx, My, Mz) = pauli_block_all(M), M of shape
\* (2*norb1, 2*norb2), the block matrix [[MI + Mz, Mx - i*My], [Mx + i*My, MI - Mz]]
\* equals M entry by entry.
C2_BlockRoundTrip ==
    fn = "pauli_block_all" =>
        LET MI == ret.val[1]
            Mx == ret.val[2]
            My == ret.val[3]
            Mz == ret.val[4]
        IN Block(Add(MI, Mz), Sub(Mx, Scale(My, ImagUnit)),
                 Add(Mx, Scale(My, ImagUnit)), Sub(MI, Mz)) = M

\* a decomposition of a matrix that is not square, with a non-zero y component
C2_Witness ==
    /\ fn = "pauli_block_all"
    /\ M.nr = 2
    /\ M.nc = 4
    /\ ret.val[3] # Zeros(1, 2)
    /\ ret.val[4] # Zeros(1, 2)

\* C3: method equivalence.  pauli_decomp(M) and pauli_decomp2(M) return the same
\* 4-tuple for every 2x2 matrix M.
C3_MethodEquivalence ==
    /\ fn = "pauli_decomp" => ret.val = pauli_decomp2(M)
    /\ fn = "pauli_decomp2" => ret.val = pauli_decomp(M)

\* pauli_decomp2 on a matrix whose y component is not zero
C3_Witness ==
    /\ fn = "pauli_decomp2"
    /\ ret.val[3] # Zero
    /\ ret.val[2] # Zero
    /\ M.e[<<1, 2>>] # CNeg(M.e[<<2, 1>>])

\* C4: for idim in 0..3, pauli_block(M, idim) returns the idim-th element of
\* pauli_block_all(M), a block of shape (norb1, norb2).
C4_BlockReturnsComponent ==
    (fn = "pauli_block" /\ idim \in 0..3) =>
        /\ ret.kind = "value"
        /\ ret.val = pauli_block_all(M)[idim + 1]

\* C5: for idim outside 0..3, pauli_block(M, idim) fails with
\* NotImplementedError and with no other error.
C5_BlockNotImplemented ==
    (fn = "pauli_block" /\ idim \notin 0..3) => ret = Raise("NotImplementedError")

\* C6: pauli_mat(nbasis, i) returns a matrix only when nbasis is even and i is
\* in 0..3; for odd nbasis it fails at the dimension check (the assertion), for
\* even nbasis and i outside 0..3 it fails with an error.
C6_PauliMatErrors ==
    fn = "pauli_mat" =>
        /\ ret.kind \in {"value", "error"}
        /\ ret.kind = "value" => (nbasis % 2 = 0 /\ idim \in 0..3)
        /\ nbasis % 2 = 1 => ret = Raise("AssertionError")
        /\ (nbasis % 2 = 0 /\ idim \notin 0..3) => ret.kind = "error"

\* an odd nbasis with an index that is no key of pauli_dict either
C6_Witness ==
    /\ fn = "pauli_mat"
    /\ nbasis = 3
    /\ idim = 4
    /\ ret.kind = "error"

\* C7: basis recovery.  For N >= 1 and i in 0..3, pauli_mat(2N, i) has the four
\* N x N blocks s_i[0,0]*J, s_i[0,1]*J, s_i[1,0]*J, s_i[1,1]*J, and
\* pauli_block_all of it is J at position i and the zero matrix elsewhere.
C7_BasisRecovery ==
    (fn = "pauli_mat" /\ nbasis >= 2 /\ nbasis % 2 = 0 /\ idim \in 0..3) =>
        LET N == nbasis \div 2
            spm == pauli_dict[idim]
            J == Array(N, N, [i \in 1..N, j \in 1..N |-> One])
        IN /\ ret.kind = "value"
           /\ ret.val.nr = 2 * N
           /\ ret.val.nc = 2 * N
           /\ \A i \in 1..(2 * N), j \in 1..(2 * N) :
                ret.val.e[<<i, j>>] = spm.e[<<IF i <= N THEN 1 ELSE 2, IF j <= N THEN 1 ELSE 2>>]
           /\ \A k \in 0..3 :
                pauli_block_all(ret.val)[k + 1] = IF k = idim THEN J ELSE Zeros(N, N)

\* the 4 x 4 matrix of sigma_y
C7_Witness ==
    /\ fn = "pauli_mat"
    /\ nbasis = 4
    /\ idim = 2
    /\ ret.kind = "value"
    /\ ret.val.e[<<1, 3>>] = CNeg(ImagUnit)

\* C8: the legacy helpers agree with pauli_block_all on a complex M of shape
\* (2*norb, 2*norb): pauli_block_I returns [[MI, 0], [0, MI]], pauli_block_x
\* returns [[0, Mx], [Mx, 0]], pauli_block_y returns (My, [[0, -i*My], [i*My, 0]]),
\* pauli_block_z returns (Mz, [[Mz, 0], [0, -Mz]]), each embedded matrix of the
\* shape of M.
C8_LegacyHelpers ==
    (fn \in {"pauli_block_I", "pauli_block_x", "pauli_block_y", "pauli_block_z"} /\ dtype = "complex128") =>
        LET D == pauli_block_all(M)
            MI == D[1]
            Mx == D[2]
            My == D[3]
            Mz == D[4]
            Z == Zeros(norb, norb)
            SameShape(R) == R.nr = M.nr /\ R.nc = M.nc
        IN /\ ret.kind = "value"
           /\ fn = "pauli_block_I" => (ret.val = Block(MI, Z, Z, MI) /\ SameShape(ret.val))
           /\ fn = "pauli_block_x" => (ret.val = Block(Z, Mx, Mx, Z) /\ SameShape(ret.val))
           /\ fn = "pauli_block_y" =>
                /\ ret.val = <<My, Block(Z, Scale(My, CNeg(ImagUnit)), Scale(My, ImagUnit), Z)>>
                /\ SameShape(ret.val[2])
           /\ fn = "pauli_block_z" =>
                /\ ret.val = <<Mz, Block(Mz, Z, Z, Neg(Mz))>>
                /\ SameShape(ret.val[2])

\* pauli_block_y on a 4 x 4 complex matrix with a y component that is not real
C8_Witness ==
    /\ fn = "pauli_block_y"
    /\ dtype = "complex128"
    /\ norb = 2
    /\ \E p \in Idx(2, 2) : ret.val[1].e[p][1] # 0 /\ ret.val[1].e[p][2] # 0

\* C9: pauli_block_sigma_norm(M) is Mz * sign(trace(Mz)) with Mz = (upup - dndn)/2:
\* for a real trace, Mz when it is positive, -Mz when it is negative, the zero
\* matrix when it is zero; its trace is never negative; the blocks updn and dnup
\* (the Mx and My components) do not influence it.
C9_BlockSigmaNorm ==
    fn = "pauli_block_sigma_norm" =>
        LET n1 == M.nr \div 2
            n2 == M.nc \div 2
            upup == Slice(M, 0, n1, 0, n2)
            dndn == Slice(M, n1, M.nr, n2, M.nc)
            Mz == Half(Sub(upup, dndn))
            t == Trace(Mz)
            Z == Zeros(n1, n2)
        IN /\ ret.kind = "value"
           /\ t[2] = 0
           /\ Mz = pauli_block_all(M)[4]
           /\ t[1] > 0 => ret.val = Mz
           /\ t[1] < 0 => ret.val = Neg(Mz)
           /\ t[1] = 0 => ret.val = Z
           /\ Trace(ret.val)[2] = 0
           /\ Trace(ret.val)[1] >= 0
           /\ ret.val = pauli_block_sigma_norm(Block(upup, Z, Z, dndn))

\* a matrix whose z component is not zero and has trace zero
C9_Witness ==
    /\ fn = "pauli_block_sigma_norm"
    /\ pauli_block_all(M)[4] # Zeros(M.nr \div 2, M.nc \div 2)
    /\ Trace(pauli_block_all(M)[4]) = Zero
    /\ ret.val = Zeros(M.nr \div 2, M.nc \div 2)

\* C10: pauli_sigma_norm(M) is the Euclidean norm of (x, y, z) of pauli_decomp(M):
\* its square is |x|^2 + |y|^2 + |z|^2, I does not enter, and it is 0 exactly
\* when M is a scalar multiple of the identity; for the identity the
\* decomposition is (1, 0, 0, 0) and the norm 0.
C10_SigmaNorm ==
    fn = "pauli_sigma_norm" =>
        LET d == pauli_decomp(M)
        IN /\ ret.val.sq4 = AbsSq4(d[2]) + AbsSq4(d[3]) + AbsSq4(d[4])
           /\ ret.val.sq4 >= 0
           /\ ret.val.sq4 = 0 <=> IsScalarMultipleOfIdentity(M)
           /\ M = s0 => (d = <<One, Zero, Zero, Zero>> /\ ret.val.sq4 = 0)

\* the norm 0 of a non-zero scalar multiple of the identity
C10_Witness ==
    /\ fn = "pauli_sigma_norm"
    /\ M = s0
    /\ ret.val.sq4 = 0

=============================================================================
